---- MODULE Spec2Model ----
(***************************************************************************)
(* Model of the spreadsheet comparer: comparer (comparer.py) and           *)
(* multifile_comparer (multifile_comparer.py).                             *)
(*                                                                         *)
(* A workbook is what openpyxl.load_workbook hands to the code: an ordered *)
(* list of sheets (sheetnames gives the order, book[name] the sheet), each *)
(* sheet a rectangular row-major grid of cell values, and the properties   *)
(* created and modified.  Cell values are numbers; None is an empty cell.  *)
(* A similarity is kept in ten-thousandths (np.around(x, 4) * 10000).      *)
(***************************************************************************)
EXTENDS Integers, Sequences, FiniteSets, TLC

\* ------------------------------------------------------------------ bounds
MaxFiles == 3
MaxSheets == 2
MaxRows == 2
MaxCols == 2
MaxCells == 2

\* ------------------------------------------------------------- data model
\* Python's None: the value of an empty cell, an absent timestamp.
None == 0

CellValues == {None, 1, 2}
TimeStamps == {None, 1, 2}

Min(a, b) == IF a < b THEN a ELSE b

\* The option tokens the callers pass; compare() splits the string on ','
\* and only tests membership, so an options string is its set of tokens.
OptionTokens == {"meta", "exact", "string", "geo"}

\* The options strings tried: none, each token alone, the default of
\* comparer.compare, the default of multifile_comparer.compare, and all.
OptionSets ==
    { {}, {"meta"}, {"exact"}, {"string"}, {"geo"}, {"meta", "exact"},
      {"meta", "exact", "string"}, OptionTokens }

\* Rectangular grids of at most MaxRows x MaxCols and MaxCells cells.
RichSheets ==
    UNION { [1..r -> [1..c -> CellValues]] :
            <<r, c>> \in { rc \in (0..MaxRows) \X (1..MaxCols) :
                           rc[1] * rc[2] <= MaxCells } }

\* Sheets of no cell or of one cell.
PlainSheets == { <<>> } \cup { << <<v>> >> : v \in CellValues }

Book(sheets, created, modified) ==
    [sheets |-> sheets, created |-> created, modified |-> modified]

\* The sheets of the worked example: [[1,2],[3,4]] and [[1,2],[3,5]].
ExampleSheet1 == << <<1, 2>>, <<3, 4>> >>
ExampleSheet2 == << <<1, 2>>, <<3, 5>> >>

\* ------------------------------------------------------- result container
\* result_dict(): an empty dict
EmptyResult == [k \in {} |-> None]

\* results[key] = value
SetItem(results, key, value) == (key :> value) @@ results

RECURSIVE ApplyWrites(_, _)
ApplyWrites(results, writes) ==
    IF writes = <<>> THEN results
    ELSE ApplyWrites(SetItem(results, writes[1][1], writes[1][2]), Tail(writes))

\* ------------------------------------------------------ cmpr_exact_values
\* [cell.value for row in sht.rows for cell in row], each value kept with
\* the coordinate of the cell it was read from.
RECURSIVE SheetCells(_, _)
SheetCells(sht, r) ==
    IF r > Len(sht) THEN <<>>
    ELSE [c \in 1..Len(sht[r]) |-> [row |-> r, col |-> c, value |-> sht[r][c]]]
         \o SheetCells(sht, r + 1)

Cells(sht) == SheetCells(sht, 1)

\* sheet1_cells[:size] against sheet2_cells[:size], size the shorter length:
\* the k-th cell read from one sheet is put against the k-th of the other.
SharedRange(sheet1_cells, sheet2_cells) ==
    [k \in 1..Min(Len(sheet1_cells), Len(sheet2_cells)) |->
        [c1 |-> sheet1_cells[k], c2 |-> sheet2_cells[k]]]

\* NpEqual with an empty cell equal to nothing, itself included.
NpEqual_NoneUnequal(pairs) ==
    [k \in DOMAIN pairs |-> /\ pairs[k].c1.value = pairs[k].c2.value
                            /\ pairs[k].c1.value # None]

\* np.equal(a, b): elementwise == (None == None is True)
NpEqual(pairs) == [k \in DOMAIN pairs |-> pairs[k].c1.value = pairs[k].c2.value]

\* np.sum of a boolean array
NpSum(flags) == Cardinality({k \in DOMAIN flags : flags[k]})

\* np.sum(np.array(cells) != None)
CountNotNone(cells) == Cardinality({k \in DOMAIN cells : cells[k].value # None})

ZERO == [nsame |-> 0, ntotal |-> 0, nexcess |-> 0]

\* The cells of the longer list beyond the shared range: sheet1_cells[size:]
\* if sheet 1 is the longer, else sheet2_cells[size:].
ExcessCells(sheet1_cells, sheet2_cells) ==
    IF Len(sheet1_cells) > Len(sheet2_cells)
    THEN SubSeq(sheet1_cells, Len(sheet2_cells) + 1, Len(sheet1_cells))
    ELSE SubSeq(sheet2_cells, Len(sheet1_cells) + 1, Len(sheet2_cells))

\* The three counters after the comparisons cmpr and the cells in excess.
Counted(acc, cmpr, excess) ==
    [nsame   |-> acc.nsame + NpSum(cmpr),
     ntotal  |-> acc.ntotal + Len(cmpr),
     nexcess |-> acc.nexcess + CountNotNone(excess)]

\* One pass of the loop over zip(sheet_names1, sheet_names2).
ZipStep(acc, sht1, sht2) ==
    Counted(acc, NpEqual(SharedRange(Cells(sht1), Cells(sht2))),
            ExcessCells(Cells(sht1), Cells(sht2)))

\* ZipLoop stopped after the first pair of sheets.
ZipLoop_FirstPairOnly(acc, sheets1, sheets2, i) ==
    IF Min(Len(sheets1), Len(sheets2)) = 0 THEN acc
    ELSE ZipStep(acc, sheets1[1], sheets2[1])

RECURSIVE ZipLoop(_, _, _, _)
ZipLoop(acc, sheets1, sheets2, i) ==
    IF i > Min(Len(sheets1), Len(sheets2)) THEN acc
    ELSE ZipLoop(ZipStep(acc, sheets1[i], sheets2[i]), sheets1, sheets2, i + 1)

\* ExcessSheets without its else branch: only workbook 1 is looked at.
ExcessSheets_OnlyBook1(sheets1, sheets2) ==
    SubSeq(sheets1, Len(sheets2) + 1, Len(sheets1))

\* The sheets one workbook has beyond the other's count.
ExcessSheets(sheets1, sheets2) ==
    IF Len(sheets1) > Len(sheets2)
    THEN SubSeq(sheets1, Len(sheets2) + 1, Len(sheets1))
    ELSE SubSeq(sheets2, Len(sheets1) + 1, Len(sheets2))

RECURSIVE ExcessLoop(_, _, _)
ExcessLoop(acc, sheets, i) ==
    IF i > Len(sheets) THEN acc
    ELSE ExcessLoop(Counted(acc, <<>>, Cells(sheets[i])), sheets, i + 1)

\* nsame, ntotal, nexcess as the function has them before it prints/stores.
ExactCounts(book1, book2) ==
    ExcessLoop(ZipLoop(ZERO, book1.sheets, book2.sheets, 1),
               ExcessSheets(book1.sheets, book2.sheets), 1)

\* np.around(float(n)/d, 4), d > 0, in ten-thousandths (round half to even).
Around4(n, d) ==
    LET q == (10000 * n) \div d
        r == (10000 * n) % d
    IN  IF 2 * r < d THEN q
        ELSE IF 2 * r > d THEN q + 1
        ELSE IF q % 2 = 0 THEN q ELSE q + 1

\* The keys cmpr_exact_values assigns, in order, and the exception that ends
\* it, n its counters.  float(nsame)/ntotal is a Python float divided by a
\* Python int: with ntotal = 0 it raises ZeroDivisionError, in the print
\* statement when do_print is set (nothing stored yet), else in the last
\* assignment (nsame, ntotal, nexcess already stored).
PrintAndStore(n, do_print) ==
    IF n.ntotal = 0
    THEN [writes |-> IF do_print THEN <<>>
                     ELSE << <<"nsame", n.nsame>>, <<"ntotal", n.ntotal>>,
                             <<"nexcess", n.nexcess>> >>,
          err |-> "ZeroDivisionError"]
    ELSE [writes |-> << <<"nsame", n.nsame>>, <<"ntotal", n.ntotal>>,
                        <<"nexcess", n.nexcess>>,
                        <<"cell_similarity", Around4(n.nsame, n.ntotal)>> >>,
          err |-> "none"]

CmprExactValues(book1, book2, do_print) ==
    PrintAndStore(ExactCounts(book1, book2), do_print)

\* -------------------------------------------------------------- cmpr_meta
\* CmprMeta with the modified time of one workbook put against the created
\* time of the other.
CmprMeta_CrossedFields(book1, book2) ==
    [writes |-> << <<"same_modify_time", book1.modified = book2.created>>,
                   <<"same_create_time", book1.created = book2.created>> >>,
     err |-> "none"]

\* CmprMeta with each comparison stored under the other flag's key.
CmprMeta_SwappedKeys(book1, book2) ==
    [writes |-> << <<"same_modify_time", book1.created = book2.created>>,
                   <<"same_create_time", book1.modified = book2.modified>> >>,
     err |-> "none"]

CmprMeta(book1, book2) ==
    [writes |-> << <<"same_modify_time", book1.modified = book2.modified>>,
                   <<"same_create_time", book1.created = book2.created>> >>,
     err |-> "none"]

\* ---------------------------------------------------------------- compare
NoCall == [writes |-> <<>>, err |-> "none"]

\* Two metric calls one after the other: the second runs if the first
\* returned.
InOrder(m, x) ==
    IF m.err # "none" THEN m
    ELSE [writes |-> m.writes \o x.writes, err |-> x.err]

\* CompareCall with the exact metric run whatever the options say.
CompareCall_AlwaysExact(book1, book2, options, do_print) ==
    InOrder(IF "meta" \in options THEN CmprMeta(book1, book2) ELSE NoCall,
            CmprExactValues(book1, book2, do_print))

\* comparer.compare: meta first, then exact; any other token is ignored.
CompareCall(book1, book2, options, do_print) ==
    InOrder(IF "meta" \in options THEN CmprMeta(book1, book2) ELSE NoCall,
            IF "exact" \in options
            THEN CmprExactValues(book1, book2, do_print) ELSE NoCall)

\* ------------------------------------------------- multifile_comparer.__init__
\* PairsFrom with the inner range started at i instead of i+1.
PairsFrom_FromSelf(i, nfiles) == [k \in 1..(nfiles - i + 1) |-> <<i, i + k - 1>>]

\* [(i, j) for j in range(i+1, nfiles)], positions counted from 1
PairsFrom(i, nfiles) == [k \in 1..(nfiles - i) |-> <<i, i + k>>]

\* [(i, j) for i in range(nfiles-1) for j in range(i+1, nfiles)]
RECURSIVE IndexPairs(_, _)
IndexPairs(i, nfiles) ==
    IF i > nfiles - 1 THEN <<>>
    ELSE PairsFrom(i, nfiles) \o IndexPairs(i + 1, nfiles)

\* comparer(file1, file2): results empty.  The workbooks it loads are
\* Book1(c) and Book2(c) below.
NewComparer(file1, file2) ==
    [file1 |-> file1, file2 |-> file2, results |-> EmptyResult]

BuildComparers(fl) ==
    LET ij == IndexPairs(1, Len(fl))
    IN  [k \in 1..Len(ij) |-> NewComparer(fl[ij[k][1]], fl[ij[k][2]])]

\* ------------------------------------------------------------------ state
VARIABLES
    filelist,     \* the file list handed to multifile_comparer
    disk,         \* file name -> the workbook stored under it
    constructed,  \* multifile_comparer.__init__ has run
    comparers,    \* self.comparers
    err,          \* the exception the last call ended with, or "none"
    table         \* the table the last call wrote, NoTable if it wrote none

vars == <<filelist, disk, constructed, comparers, err, table>>

\* No table: the last call was not print_table, or print_table raised before
\* it wrote.
NoTable == [written |-> FALSE, filename |-> "", header |-> <<>>, rows |-> <<>>]

\* self.book1, self.book2: openpyxl.load_workbook(file) at construction; the
\* files do not change afterwards, so the loaded workbook is the stored one.
Book1(c) == disk[c.file1]
Book2(c) == disk[c.file2]

\* multifile_comparer(filelist)
Construct ==
    /\ ~constructed
    /\ constructed' = TRUE
    /\ comparers' = BuildComparers(filelist)
    /\ err' = "none"
    /\ table' = NoTable
    /\ UNCHANGED <<filelist, disk>>

\* The list cs with the assignments of a call stored in its i-th comparer,
\* and the exception the call ended with.
Stored(cs, i, out) ==
    [comparers |-> [cs EXCEPT ![i].results = ApplyWrites(cs[i].results, out.writes)],
     err |-> out.err]

\* c.compare(options, do_print) on the i-th comparer of the list cs
CallOn(cs, i, options, do_print) ==
    Stored(cs, i, CompareCall(Book1(cs[i]), Book2(cs[i]), options, do_print))

\* The state a call leaves.
Becomes(out) ==
    /\ comparers' = out.comparers
    /\ err' = out.err
    /\ table' = NoTable
    /\ UNCHANGED <<filelist, disk, constructed>>

\* c.compare(options, do_print) on one comparer of the list
ComparerCompare(i, options, do_print) ==
    /\ constructed
    /\ i \in DOMAIN comparers
    /\ Becomes(CallOn(comparers, i, options, do_print))

\* for c in self.comparers: c.compare(...); the first exception ends the loop
RECURSIVE CompareLoop(_, _, _, _)
RECURSIVE LoopAfter(_, _, _, _)
CompareLoop(cs, i, options, do_print) ==
    IF i > Len(cs) THEN [comparers |-> cs, err |-> "none"]
    ELSE LoopAfter(CallOn(cs, i, options, do_print), i, options, do_print)

\* The loop after the call on the i-th comparer left out.
LoopAfter(out, i, options, do_print) ==
    IF out.err # "none" THEN out
    ELSE CompareLoop(out.comparers, i + 1, options, do_print)

\* multifile_comparer.compare(options, do_print)
MultiCompare(options, do_print) ==
    /\ constructed
    /\ Becomes(CompareLoop(comparers, 1, options, do_print))

Next ==
    \/ Construct
    \/ \E i \in 1..Len(comparers), options \in OptionSets, do_print \in BOOLEAN :
          ComparerCompare(i, options, do_print)
    \/ \E options \in OptionSets, do_print \in BOOLEAN :
          MultiCompare(options, do_print)

\* ------------------------------------------------------------------- inputs
Files == 1..MaxFiles

\* The file lists: any of the files, each once, in directory order.
FileLists ==
    { fl \in UNION { [1..n -> Files] : n \in 0..MaxFiles } :
        \A a, b \in DOMAIN fl : a < b => fl[a] < fl[b] }

\* The workbooks of the collection the orchestrator is run on.
StoredBook(f) ==
    CASE f % 4 = 1 -> Book(<<ExampleSheet1>>, 1, 1)
      [] f % 4 = 2 -> Book(<<ExampleSheet2>>, 1, 2)
      [] f % 4 = 3 -> Book(<< <<>>, << <<1>> >> >>, None, 2)
      [] OTHER     -> Book(<<ExampleSheet1>>, 1, 1)

Init ==
    /\ filelist \in FileLists
    /\ disk = [f \in Files |-> StoredBook(f)]
    /\ constructed = FALSE
    /\ comparers = <<>>
    /\ err = "none"
    /\ table = NoTable

Spec == Init /\ [][Next]_vars

\* Two files, their workbooks drawn from bounded sets.
SheetLists == UNION { [1..n -> PlainSheets] : n \in 1..MaxSheets }

BookPairs ==
    { <<Book(<<s1>>, 1, 1), Book(<<s2>>, 1, 1)>> : s1 \in RichSheets, s2 \in RichSheets }
    \cup { <<Book(l1, 1, 1), Book(l2, 1, 1)>> : l1 \in SheetLists, l2 \in SheetLists }
    \cup { <<Book(<< << <<1>> >> >>, t[1], t[2]), Book(<< << <<1>> >> >>, t[3], t[4])>> :
           t \in TimeStamps \X TimeStamps \X TimeStamps \X TimeStamps }
    \cup { <<Book(<<ExampleSheet1>>, 1, 1), Book(<<ExampleSheet2>>, 1, 2)>> }

\* One comparer, c = comparer(file1, file2), and the calls of c.compare.
InitPair ==
    /\ filelist = <<1, 2>>
    /\ \E bp \in BookPairs : disk = [f \in 1..2 |-> bp[f]]
    /\ constructed = TRUE
    /\ comparers = <<NewComparer(1, 2)>>
    /\ err = "none"
    /\ table = NoTable

NextPair ==
    \E options \in OptionSets, do_print \in BOOLEAN :
        ComparerCompare(1, options, do_print)

SpecPair == InitPair /\ [][NextPair]_vars

\* ------------------------------------------------------------ print_table
\* The keys the metric functions assign, in the order str < str puts them
\* (by code point: 'c' < 'n' < 's', 'e' < 's' < 't', 'c' < 'm').
KeysAscending ==
    <<"cell_similarity", "nexcess", "nsame", "ntotal",
      "same_create_time", "same_modify_time">>

KeyRank(k) == CHOOSE n \in DOMAIN KeysAscending : KeysAscending[n] = k

\* sub in k, for the substrings print_table tests and the keys above.
KeysContaining ==
    [ntotal  |-> {"ntotal"},
     nsame   |-> {"nsame"},
     nexcess |-> {"nexcess"},
     sim     |-> {"cell_similarity"}]

In(sub, k) == k \in KeysContaining[sub]

\* c.results.keys(): the keys the result holds.  A dict yields them in the
\* order of their first assignment; they are taken here in the order
\* compare('meta,exact') assigns them.  print_table depends on the order only
\* through the order of keys_columns.keys(), which it sorts.
KeysOf(results) ==
    SelectSeq(<<"same_modify_time", "same_create_time",
                "nsame", "ntotal", "nexcess", "cell_similarity">>,
              LAMBDA k : k \in DOMAIN results)

InSeq(k, seq) == \E n \in DOMAIN seq : seq[n] = k

\* keys_columns.keys() after the loop over the comparers: each key once, in
\* the order of its first insertion.
RECURSIVE FirstSeen(_, _, _)
FirstSeen(keys, cs, i) ==
    IF i > Len(cs) THEN keys
    ELSE FirstSeen(keys \o SelectSeq(KeysOf(cs[i].results),
                                     LAMBDA k : ~InSeq(k, keys)),
                   cs, i + 1)

\* str(c.results[k]).  A flag gives the word True or False; a counter gives
\* its decimal digits; the similarity, a float, gives digits with a point
\* (kept in ten-thousandths).
Str(k, v) ==
    IF k \in {"same_create_time", "same_modify_time"}
    THEN [word |-> IF v THEN "True" ELSE "False", digits |-> 0]
    ELSE IF k = "cell_similarity"
    THEN [word |-> "float", digits |-> v]
    ELSE [word |-> "int", digits |-> v]

\* float(value) of the text of a number, in ten-thousandths.
Float(value) ==
    IF value.word = "int" THEN 10000 * value.digits ELSE value.digits

\* keys_columns[k]: str(c.results[k]) appended for each comparer that holds
\* the key k, in the order of the comparers.
RECURSIVE KeyColumn(_, _, _)
KeyColumn(cs, k, i) ==
    IF i > Len(cs) THEN <<>>
    ELSE (IF k \in DOMAIN cs[i].results
          THEN <<Str(k, cs[i].results[k])>> ELSE <<>>)
         \o KeyColumn(cs, k, i + 1)

\* colkeys.sort()
RECURSIVE Insert(_, _)
Insert(k, sorted) ==
    IF sorted = <<>> THEN <<k>>
    ELSE IF KeyRank(k) < KeyRank(Head(sorted)) THEN <<k>> \o sorted
    ELSE <<Head(sorted)>> \o Insert(k, Tail(sorted))

RECURSIVE Sort(_)
Sort(keys) ==
    IF keys = <<>> THEN <<>> ELSE Insert(Head(keys), Sort(Tail(keys)))

\* Shown with only 'ntotal' passed over.
Shown_OnlyNtotalSkipped(colkeys) ==
    SelectSeq(colkeys, LAMBDA k : ~In("ntotal", k))

\* The keys of colkeys the two loops do not pass over:
\* if 'ntotal' in k or 'nsame' in k : continue
Shown(colkeys) ==
    SelectSeq(colkeys, LAMBDA k : ~(In("ntotal", k) \/ In("nsame", k)))

\* thresholds for cell similarity (warning, fail), in ten-thousandths
cell_sim_thresh == <<5000, 8000>>

\* SimColour with the second threshold never looked at.
SimColour_OneThreshold(x) ==
    IF x > cell_sim_thresh[1] THEN "FAIL" ELSE "OKGREEN"

\* The colour of a value of a key holding "sim".
SimColour(x) ==
    IF x > cell_sim_thresh[1]
    THEN IF x > cell_sim_thresh[2] THEN "FAIL" ELSE "WARNING"
    ELSE "OKGREEN"

\* The colour put around a cell when filename == ''; "plain" when no branch
\* of the if/elif chain is taken.
Colour(k, value) ==
    IF value.word = "True" THEN "FAIL"
    ELSE IF value.word = "False" THEN "OKGREEN"
    ELSE IF In("nexcess", k)
    THEN IF Float(value) = 0 THEN "WARNING" ELSE "OKGREEN"
    ELSE IF In("sim", k) THEN SimColour(Float(value))
    ELSE "plain"

\* s1: the text of a cell and the colour around it (ljust only pads).
Cell(k, value, filename) ==
    [key |-> k, text |-> value,
     colour |-> IF filename = "" THEN Colour(k, value) ELSE "plain"]

\* One row: the two file names, then value = keys_columns[k][i] for each
\* key shown.
Row(cs, i, header, filename) ==
    [file1 |-> cs[i].file1, file2 |-> cs[i].file2,
     cells |-> [n \in DOMAIN header |->
                  Cell(header[n], KeyColumn(cs, header[n], 1)[i], filename)]]

\* The string s: the header line, then one row for each comparer.
TableOf(cs, header, filename) ==
    [written |-> TRUE, filename |-> filename, header |-> header,
     rows |-> [i \in DOMAIN cs |-> Row(cs, i, header, filename)]]

\* keys_columns[k][i] is beyond the end of the list keys_columns[k] for some
\* row i and some key k shown: IndexError.
OutOfRange(cs, header) ==
    \E i \in DOMAIN cs, n \in DOMAIN header :
        i > Len(KeyColumn(cs, header[n], 1))

\* print_table(filename): the table written and the exception raised.
\* max(map(len, file1)) of no comparer raises ValueError; an exception leaves
\* nothing written, s being printed or appended to the file only at the end.
PrintTableCall(cs, filename) ==
    IF cs = <<>> THEN [table |-> NoTable, err |-> "ValueError"]
    ELSE IF OutOfRange(cs, Shown(Sort(FirstSeen(<<>>, cs, 1))))
    THEN [table |-> NoTable, err |-> "IndexError"]
    ELSE [table |-> TableOf(cs, Shown(Sort(FirstSeen(<<>>, cs, 1))), filename),
          err |-> "none"]

Writes(out) ==
    /\ table' = out.table
    /\ err' = out.err
    /\ UNCHANGED <<filelist, disk, constructed, comparers>>

\* multifile_comparer.print_table(filename)
PrintTable(filename) ==
    /\ constructed
    /\ Writes(PrintTableCall(comparers, filename))

\* '' writes to stdout, any other name appends to that file.
FileNames == {"", "table.txt"}

\* The options strings the table is filled with: each metric alone and the
\* default of multifile_comparer.compare.
TableOptions == { {"meta"}, {"exact"}, {"meta", "exact", "string"} }

\* A sheet of one row of ten cells, the last n of them 2 and the others 1.
TenCells(n) == << [k \in 1..10 |-> IF k > 10 - n THEN 2 ELSE 1] >>

\* Collections of workbooks whose pairs give the similarities 0.8, 0.5 and
\* 0.7 (ten cells), and 0.5, 1.0 and 0.0 (two cells, one with excess).
TenCellBook(f) ==
    CASE f % 4 = 1 -> Book(<<TenCells(0)>>, 1, 1)
      [] f % 4 = 2 -> Book(<<TenCells(2)>>, 1, 2)
      [] f % 4 = 3 -> Book(<<TenCells(5)>>, None, 2)
      [] OTHER     -> Book(<<TenCells(0)>>, 2, 1)

TwoCellBook(f) ==
    CASE f % 4 = 1 -> Book(<< << <<1, 1>> >> >>, 1, 1)
      [] f % 4 = 2 -> Book(<< << <<1, 2>> >> >>, 1, 1)
      [] f % 4 = 3 -> Book(<< << <<1, 1>>, <<2, None>> >> >>, 1, None)
      [] OTHER     -> Book(<< << <<2, 2>> >> >>, None, None)

Disks ==
    { [f \in Files |-> StoredBook(f)],
      [f \in Files |-> TenCellBook(f)],
      [f \in Files |-> TwoCellBook(f)] }

InitTable ==
    /\ filelist \in FileLists
    /\ disk \in Disks
    /\ constructed = FALSE
    /\ comparers = <<>>
    /\ err = "none"
    /\ table = NoTable

NextTable ==
    \/ Construct
    \/ \E i \in 1..Len(comparers), options \in TableOptions, do_print \in BOOLEAN :
          ComparerCompare(i, options, do_print)
    \/ \E options \in TableOptions, do_print \in BOOLEAN :
          MultiCompare(options, do_print)
    \/ \E filename \in FileNames : PrintTable(filename)

SpecTable == InitTable /\ [][NextTable]_vars

\* ================================================================= claims
Results(i) == comparers[i].results
HasKey(i, key) == key \in DOMAIN Results(i)
Max(a, b) == IF a > b THEN a ELSE b

\* The positions (sheet i, k-th cell) that both workbooks of a pair have.
PairedCells(book1, book2) ==
    UNION { {n} \X (1..Min(Len(Cells(book1.sheets[n])), Len(Cells(book2.sheets[n])))) :
            n \in 1..Min(Len(book1.sheets), Len(book2.sheets)) }

\* The positions of a workbook's cells, and of its non-empty cells.
AllCells(book) ==
    UNION { {n} \X (1..Len(Cells(book.sheets[n]))) : n \in 1..Len(book.sheets) }

ValueAt(book, p) == Cells(book.sheets[p[1]])[p[2]].value

NonEmptyCells(book) == { p \in AllCells(book) : ValueAt(book, p) # None }

NaN == "nan"

\* C2: when the exact-value metric has found no comparable cell (ntotal = 0)
\* the call has not raised and the similarity stored is the NaN sentinel.
C2_NanOnZeroTotal ==
    \A i \in DOMAIN comparers :
        (HasKey(i, "ntotal") /\ Results(i)["ntotal"] = 0) =>
            /\ err = "none"
            /\ HasKey(i, "cell_similarity")
            /\ Results(i)["cell_similarity"] = NaN

\* ---------------------------------------------------------------------- C3
BothNonEmpty(book1, book2) ==
    { p \in PairedCells(book1, book2) :
        ValueAt(book1, p) # None /\ ValueAt(book2, p) # None }

IsExample(c) ==
    /\ Book1(c).sheets = <<ExampleSheet1>>
    /\ Book2(c).sheets = <<ExampleSheet2>>

\* C3 as stated: only pairs of non-empty cells are counted, each adds 1 to
\* ntotal and, when the two values are equal, 1 to nsame.
C3_NonEmptyPairsOnly ==
    \A i \in DOMAIN comparers :
        HasKey(i, "ntotal") =>
            LET b1 == Book1(comparers[i])
                b2 == Book2(comparers[i])
            IN  /\ Results(i)["ntotal"] = Cardinality(BothNonEmpty(b1, b2))
                /\ Results(i)["nsame"] =
                     Cardinality({p \in BothNonEmpty(b1, b2) :
                                    ValueAt(b1, p) = ValueAt(b2, p)})

\* C3 amended: every compared pair of cells, empty or not, adds 1 to ntotal,
\* and adds 1 to nsame exactly when the two values are equal (two empty cells
\* are equal); [[1,2],[3,4]] against [[1,2],[3,5]] gives 3, 4 and 0.75.
C3_AllPairsCounted ==
    \A i \in DOMAIN comparers :
        HasKey(i, "ntotal") =>
            LET b1 == Book1(comparers[i])
                b2 == Book2(comparers[i])
            IN  /\ Results(i)["ntotal"] = Cardinality(PairedCells(b1, b2))
                /\ Results(i)["nsame"] =
                     Cardinality({p \in PairedCells(b1, b2) :
                                    ValueAt(b1, p) = ValueAt(b2, p)})
                /\ IsExample(comparers[i]) =>
                     /\ Results(i)["nsame"] = 3
                     /\ Results(i)["ntotal"] = 4
                     /\ HasKey(i, "cell_similarity")
                     /\ Results(i)["cell_similarity"] = 7500

\* The metric has run on a pair in which two empty cells face each other.
C3_Witness ==
    \E i \in DOMAIN comparers :
        /\ HasKey(i, "cell_similarity")
        /\ \E p \in PairedCells(Book1(comparers[i]), Book2(comparers[i])) :
              /\ ValueAt(Book1(comparers[i]), p) = None
              /\ ValueAt(Book2(comparers[i]), p) = None

\* ---------------------------------------------------------------------- C4
\* C4: every pair of cells the exact-value metric has compared is a cell of
\* sheet 1 and the cell of sheet 2 at the same row and column.
C4_SameCoordinate ==
    \A i \in DOMAIN comparers :
        HasKey(i, "ntotal") =>
            LET s1 == Book1(comparers[i]).sheets
                s2 == Book2(comparers[i]).sheets
            IN  \A n \in 1..Min(Len(s1), Len(s2)) :
                  \A k \in DOMAIN SharedRange(Cells(s1[n]), Cells(s2[n])) :
                     LET pair == SharedRange(Cells(s1[n]), Cells(s2[n]))[k]
                     IN  pair.c1.row = pair.c2.row /\ pair.c1.col = pair.c2.col
\* ---------------------------------------------------------------------- C5
\* C5: on two identical workbooks that have a cell no call ends with an
\* exception, the exact-value metric leaves similarity 1.0 and nsame = ntotal,
\* and the metadata metric leaves both flags true.
C5_IdenticalBooks ==
    \A i \in DOMAIN comparers :
        ( /\ Book1(comparers[i]) = Book2(comparers[i])
          /\ AllCells(Book1(comparers[i])) # {} )
        => /\ err = "none"
           /\ HasKey(i, "ntotal") =>
                 /\ HasKey(i, "cell_similarity")
                 /\ Results(i)["cell_similarity"] = 10000
                 /\ Results(i)["nsame"] = Results(i)["ntotal"]
           /\ HasKey(i, "same_create_time") =>
                 /\ Results(i)["same_create_time"]
                 /\ Results(i)["same_modify_time"]

\* Both metrics have run on two identical workbooks whose created and
\* modified times differ from each other.
C5_Witness ==
    \E i \in DOMAIN comparers :
        /\ Book1(comparers[i]) = Book2(comparers[i])
        /\ Book1(comparers[i]).created # Book1(comparers[i]).modified
        /\ HasKey(i, "cell_similarity")
        /\ HasKey(i, "same_create_time")

\* ---------------------------------------------------------------------- C6
\* The result keys the specification lists for an options string.
ListedKeys(options) ==
    (IF "meta" \in options THEN {"same_create_time", "same_modify_time"} ELSE {})
    \cup (IF "exact" \in options THEN {"nsame_xct", "ntotal_xct", "sim_exact"} ELSE {})
    \cup (IF "string" \in options
          THEN {"nsame_str", "ntotal_str", "nexcess_str", "sim_str"} ELSE {})
    \cup (IF "geo" \in options THEN {"nsame_geo", "ntotal_geo", "sim_geo"} ELSE {})

\* C6: a compare call on an empty result that ends without an exception
\* leaves exactly the keys listed for the metrics its options select.
C6_ListedKeys ==
    [][\A i \in DOMAIN comparers, options \in OptionSets, do_print \in BOOLEAN :
         ( /\ ComparerCompare(i, options, do_print)
           /\ Results(i) = EmptyResult
           /\ err' = "none" )
         => DOMAIN comparers'[i].results = ListedKeys(options)]_vars

\* ---------------------------------------------------------------------- C7
ComboStats(sht1, sht2) == ZipStep(ZERO, sht1, sht2)

RECURSIVE PositionalSum(_, _, _, _)
PositionalSum(s1, s2, n, field) ==
    IF n > Min(Len(s1), Len(s2)) THEN 0
    ELSE ComboStats(s1[n], s2[n])[field] + PositionalSum(s1, s2, n + 1, field)

C8_StringCounters ==
    [][\A i \in DOMAIN comparers, options \in OptionSets, do_print \in BOOLEAN :
         (ComparerCompare(i, options, do_print) /\ "string" \in options /\ err' = "none")
         => LET r == comparers'[i].results
            IN  /\ {"nsame_str", "ntotal_str", "nexcess_str"} \subseteq DOMAIN r
                /\ r["nsame_str"] <= r["ntotal_str"]
                /\ r["nexcess_str"] >= 0]_vars

\* ---------------------------------------------------------------------- C9
\* The non-empty cells of the two workbooks outside the shared range.
OutsideSharedRange(book1, book2) ==
    Cardinality(NonEmptyCells(book1) \ PairedCells(book1, book2))
    + Cardinality(NonEmptyCells(book2) \ PairedCells(book1, book2))

\* C9: whatever the sheet counts and cell counts of the two workbooks, when
\* they share at least one cell position no call ends with an exception, and
\* the exact-value metric leaves ntotal the number of shared positions and
\* nexcess the number of non-empty cells outside the shared range.
C9_ExcessOutsideSharedRange ==
    \A i \in DOMAIN comparers :
        LET b1 == Book1(comparers[i])
            b2 == Book2(comparers[i])
        IN  PairedCells(b1, b2) # {} =>
              /\ err = "none"
              /\ HasKey(i, "ntotal") =>
                    /\ HasKey(i, "cell_similarity")
                    /\ Results(i)["ntotal"] = Cardinality(PairedCells(b1, b2))
                    /\ Results(i)["nexcess"] = OutsideSharedRange(b1, b2)

\* The metric has run on workbooks of different sheet counts, the second
\* with the larger count, and found cells in excess.
C9_Witness ==
    \E i \in DOMAIN comparers :
        /\ HasKey(i, "cell_similarity")
        /\ Len(Book1(comparers[i]).sheets) < Len(Book2(comparers[i]).sheets)
        /\ Results(i)["nexcess"] > 0

\* --------------------------------------------------------------------- C10
\* The keys each metric function assigns (its "Sets to results").
OwnedKeys(options) ==
    (IF "meta" \in options THEN {"same_create_time", "same_modify_time"} ELSE {})
    \cup (IF "exact" \in options
          THEN {"nsame", "ntotal", "nexcess", "cell_similarity"} ELSE {})

NoRepeat(seq) == \A a, b \in DOMAIN seq : a # b => seq[a][1] # seq[b][1]

\* What a call with these options may do to a result r, rn the result after.
FrameKept(r, rn, options) ==
    /\ \A k \in DOMAIN r :
          k \in DOMAIN rn /\ (k \notin OwnedKeys(options) => rn[k] = r[k])
    /\ \A k \in DOMAIN rn : k \notin DOMAIN r => k \in OwnedKeys(options)

\* C10: in every state, whatever compare call comes next (on one comparer or
\* on the whole list) assigns each key at most once, removes no key, and
\* changes or adds only keys owned by a metric its options request; a call on
\* one comparer leaves the other comparers alone.
C10_FrameOfCompare ==
    constructed =>
      \A options \in OptionSets, do_print \in BOOLEAN :
        /\ \A i \in DOMAIN comparers :
              LET after == CallOn(comparers, i, options, do_print).comparers
              IN  /\ NoRepeat(CompareCall(Book1(comparers[i]), Book2(comparers[i]),
                                          options, do_print).writes)
                  /\ FrameKept(comparers[i].results, after[i].results, options)
                  /\ \A j \in DOMAIN comparers : j # i => after[j] = comparers[j]
        /\ LET after == CompareLoop(comparers, 1, options, do_print).comparers
           IN  /\ DOMAIN after = DOMAIN comparers
               /\ \A j \in DOMAIN comparers :
                     /\ after[j].file1 = comparers[j].file1
                     /\ after[j].file2 = comparers[j].file2
                     /\ FrameKept(comparers[j].results, after[j].results, options)

\* A comparer holds the keys of both metrics while another holds none.
C10_Witness ==
    \E i, j \in DOMAIN comparers :
        /\ HasKey(i, "same_create_time")
        /\ HasKey(i, "cell_similarity")
        /\ Results(j) = EmptyResult

\* --------------------------------------------------------------------- C11
\* C11: the metadata metric never ends with an exception and assigns exactly
\* the two flags; once it has run, same_create_time is true exactly when the
\* created timestamps of the two workbooks are equal and same_modify_time
\* exactly when the modified timestamps are, each whatever the other is; an
\* absent timestamp (None) equals only another absent timestamp.
C11_MetaFlags ==
    \A i \in DOMAIN comparers :
        LET b1 == Book1(comparers[i])
            b2 == Book2(comparers[i])
        IN  /\ CmprMeta(b1, b2).err = "none"
            /\ { w[1] : w \in { CmprMeta(b1, b2).writes[n] : n \in 1..2 } }
                  = {"same_create_time", "same_modify_time"}
            /\ Len(CmprMeta(b1, b2).writes) = 2
            /\ HasKey(i, "same_create_time") =>
                  /\ HasKey(i, "same_modify_time")
                  /\ Results(i)["same_create_time"] = (b1.created = b2.created)
                  /\ Results(i)["same_modify_time"] = (b1.modified = b2.modified)
                  /\ (b1.created = None /\ b2.created # None)
                        => ~Results(i)["same_create_time"]
                  /\ (b1.created = None /\ b2.created = None)
                        => Results(i)["same_create_time"]
                  /\ (b1.modified # None /\ b2.modified = None)
                        => ~Results(i)["same_modify_time"]

\* The metric has run on a pair whose created times are both absent and
\* whose modified times differ, one of them absent: the flags disagree.
C11_Witness ==
    \E i \in DOMAIN comparers :
        /\ HasKey(i, "same_create_time")
        /\ Book1(comparers[i]).created = None
        /\ Book2(comparers[i]).created = None
        /\ Book1(comparers[i]).modified # None
        /\ Book2(comparers[i]).modified = None
        /\ Results(i)["same_create_time"]
        /\ ~Results(i)["same_modify_time"]

\* --------------------------------------------------------------------- C12
\* The keys held by the result of any pair.
KeysPresent == UNION { DOMAIN comparers[i].results : i \in DOMAIN comparers }

\* The raw counters: the keys holding 'ntotal' or 'nsame'.
RawCounters == { k \in KeysPresent : In("ntotal", k) \/ In("nsame", k) }

\* C12: a table print_table has written has no column for a raw counter, in
\* its header and in every row; every other key present in the result of any
\* pair is a column; and the columns are in ascending order of their keys.
C12_NoRawCounterColumns ==
    table.written =>
        /\ { table.header[n] : n \in DOMAIN table.header }
             = KeysPresent \ RawCounters
        /\ \A a, b \in DOMAIN table.header :
              a < b => KeyRank(table.header[a]) < KeyRank(table.header[b])
        /\ DOMAIN table.rows = DOMAIN comparers
        /\ \A i \in DOMAIN table.rows :
              [n \in DOMAIN table.rows[i].cells |-> table.rows[i].cells[n].key]
                = table.header

\* A table of three rows has been written while the results hold the raw
\* counters and the keys of both metrics.
C12_Witness ==
    /\ table.written
    /\ Len(table.rows) = 3
    /\ Len(table.header) = 4
    /\ {"nsame", "ntotal"} \subseteq KeysPresent

C14_OwnValue ==
    [][\A filename \in FileNames :
         (PrintTable(filename) /\ comparers # <<>>)
         => /\ table'.written
            /\ \A i \in DOMAIN comparers :
                  \A k \in DOMAIN Results(i) \ RawCounters :
                     \E n \in DOMAIN table'.rows[i].cells :
                        /\ table'.rows[i].cells[n].key = k
                        /\ table'.rows[i].cells[n].text = Str(k, Results(i)[k])]_vars

\* --------------------------------------------------------------------- C15
\* C15: print_table ends without an exception and writes a table in every
\* state construction and compare calls lead to; on an orchestrator of no
\* pair (a file list of zero or one files) the table has no rows.
C15_PrintTableCompletes ==
    [][\A filename \in FileNames :
         PrintTable(filename)
         => /\ err' = "none"
            /\ table'.written
            /\ comparers = <<>> => table'.rows = <<>>]_vars

====
